---- MODULE Spec2Model ----
(***************************************************************************)
(* Optical component parameter-propagation model of payload_designer:      *)
(* Foreoptics, VPHGrism, ThinLens and AchromDoublet (components.py).       *)
(*                                                                         *)
(* A component is a record of optional fields; every method is a function  *)
(* from the record to the pair (record after the call, outcome).  An       *)
(* outcome is a returned value or a raised Python exception.               *)
(*                                                                         *)
(* Numbers.  Floating-point values are modelled by exact reals of the form *)
(*     q + k*pi + asin(x) + (180/pi)*asin(y)      (q, k, x, y rational)    *)
(* together with the IEEE specials nan, +inf, -inf.  This keeps degree /   *)
(* radian conversion, sin, tan and arcsin exact on the angles used.  A     *)
(* real the form cannot express is the value Unrep; the input sets of the  *)
(* specifications below are chosen so that Unrep is never produced.        *)
(* Floating-point rounding is not modelled.                                *)
(***************************************************************************)
EXTENDS Integers, Sequences, FiniteSets, TLC

VARIABLES self, first, last

vars == <<self, first, last>>

---------------------------------------------------------------------------
(* Rationals: normalised pairs <<numerator, denominator>>, denominator > 0 *)

Abs(i) == IF i < 0 THEN -i ELSE i

RECURSIVE GCD(_, _)
GCD(a, b) == IF b = 0 THEN a ELSE GCD(b, a % b)

Rat(n, d) ==
    LET s == IF d < 0 THEN -1 ELSE 1
        g == GCD(Abs(n), Abs(d))
    IN  <<(s * n) \div g, (s * d) \div g>>

R0 == <<0, 1>>
R1 == <<1, 1>>
RBad == <<0, 0>>
RAdd(a, b) == Rat(a[1] * b[2] + b[1] * a[2], a[2] * b[2])
RNeg(a) == <<-a[1], a[2]>>
RMul(a, b) == Rat(a[1] * b[1], a[2] * b[2])
RInv(a) == Rat(a[2], a[1])
RSgn(a) == IF a[1] > 0 THEN 1 ELSE IF a[1] < 0 THEN -1 ELSE 0
RAbsGt1(a) == Abs(a[1]) > a[2]

---------------------------------------------------------------------------
(* Values *)

None == [t |-> "None"]
NaN == [t |-> "nan"]
Inf(s) == [t |-> "inf", s |-> s]
Unrep == [t |-> "unrep"]
Real(q, k, x, y) == [t |-> "r", q |-> q, k |-> k, x |-> x, y |-> y]
Num(n, d) == Real(Rat(n, d), R0, R0, R0)
List(s) == [t |-> "list", v |-> s]
Mat(rows) == [t |-> "mat", v |-> rows]

IsRat(v) == v.t = "r" /\ v.k = R0 /\ v.x = R0 /\ v.y = R0
IsZero(v) == v.t = "r" /\ v.q = R0 /\ v.k = R0 /\ v.x = R0 /\ v.y = R0

\* sign of a real: -1, 0, 1, or 2 when the form does not decide it
Sgn(v) ==
    IF IsRat(v) THEN RSgn(v.q)
    ELSE IF v.q = R0 /\ v.x = R0 /\ v.y = R0 THEN RSgn(v.k)
    ELSE 2

\* asin(x1) + asin(x2) when expressible, else RBad
AsinSum(x1, x2) ==
    IF x1 = R0 THEN x2
    ELSE IF x2 = R0 THEN x1
    ELSE IF x1 = RNeg(x2) THEN R0
    ELSE RBad

\* c * v for a rational c
Scale(v, c) ==
    IF c = R0 THEN Num(0, 1)
    ELSE IF c = R1 THEN v
    ELSE IF c = <<-1, 1>> THEN Real(RNeg(v.q), RNeg(v.k), RNeg(v.x), RNeg(v.y))
    ELSE IF v.x = R0 /\ v.y = R0 THEN Real(RMul(c, v.q), RMul(c, v.k), R0, R0)
    ELSE Unrep

---------------------------------------------------------------------------
(* numpy scalar arithmetic (IEEE: no exception, nan and inf propagate) *)

NAdd(a, b) ==
    IF a.t = "unrep" \/ b.t = "unrep" THEN Unrep
    ELSE IF a.t = "nan" \/ b.t = "nan" THEN NaN
    ELSE IF a.t = "inf" /\ b.t = "inf" THEN (IF a.s = b.s THEN a ELSE NaN)
    ELSE IF a.t = "inf" THEN a
    ELSE IF b.t = "inf" THEN b
    ELSE LET x == AsinSum(a.x, b.x)
             y == AsinSum(a.y, b.y)
         IN  IF x = RBad \/ y = RBad THEN Unrep
             ELSE Real(RAdd(a.q, b.q), RAdd(a.k, b.k), x, y)

NMul(a, b) ==
    IF a.t = "unrep" \/ b.t = "unrep" THEN Unrep
    ELSE IF a.t = "nan" \/ b.t = "nan" THEN NaN
    ELSE IF a.t = "inf" /\ b.t = "inf" THEN Inf(a.s * b.s)
    ELSE IF a.t = "inf" THEN
        (IF Sgn(b) = 0 THEN NaN ELSE IF Sgn(b) = 2 THEN Unrep ELSE Inf(a.s * Sgn(b)))
    ELSE IF b.t = "inf" THEN
        (IF Sgn(a) = 0 THEN NaN ELSE IF Sgn(a) = 2 THEN Unrep ELSE Inf(b.s * Sgn(a)))
    ELSE IF IsRat(a) THEN Scale(b, a.q)
    ELSE IF IsRat(b) THEN Scale(a, b.q)
    ELSE Unrep

NNeg(a) == NMul(Num(-1, 1), a)

NSub(a, b) == NAdd(a, NNeg(b))

\* true division: x/0 is +-inf, 0/0 is nan
NDivide(a, b) ==
    IF a.t = "unrep" \/ b.t = "unrep" THEN Unrep
    ELSE IF a.t = "nan" \/ b.t = "nan" THEN NaN
    ELSE IF b.t = "inf" THEN (IF a.t = "inf" THEN NaN ELSE Num(0, 1))
    ELSE IF IsZero(b) THEN
        (IF a.t = "inf" THEN a
         ELSE IF Sgn(a) = 0 THEN NaN
         ELSE IF Sgn(a) = 2 THEN Unrep
         ELSE Inf(Sgn(a)))
    ELSE IF ~IsRat(b) THEN Unrep
    ELSE IF a.t = "inf" THEN Inf(a.s * Sgn(b))
    ELSE Scale(a, RInv(b.q))

\* sin(k*pi) for the k whose sine is rational
SinPi(k) ==
    IF k[2] \notin {1, 2, 3, 6} THEN Unrep
    ELSE LET j == (k[1] * (6 \div k[2])) % 12
         IN  CASE j \in {0, 6} -> Num(0, 1)
               [] j \in {1, 5} -> Num(1, 2)
               [] j = 3 -> Num(1, 1)
               [] j \in {7, 11} -> Num(-1, 2)
               [] j = 9 -> Num(-1, 1)
               [] OTHER -> Unrep

NSin(a) ==
    IF a.t = "unrep" THEN Unrep
    ELSE IF a.t \in {"nan", "inf"} THEN NaN
    ELSE IF a.q # R0 \/ a.y # R0 THEN Unrep
    ELSE IF a.x = R0 THEN SinPi(a.k)
    ELSE IF a.k = R0 THEN Real(a.x, R0, R0, R0)
    ELSE IF a.k \in {R1, <<-1, 1>>} THEN Real(RNeg(a.x), R0, R0, R0)
    ELSE Unrep

\* tan(k*pi) for the k whose tangent is rational
TanPi(k) ==
    IF k[2] \notin {1, 2, 4} THEN Unrep
    ELSE LET j == (k[1] * (4 \div k[2])) % 4
         IN  CASE j = 0 -> Num(0, 1)
               [] j = 1 -> Num(1, 1)
               [] j = 3 -> Num(-1, 1)
               [] OTHER -> Unrep

NTan(a) ==
    IF a.t = "unrep" THEN Unrep
    ELSE IF a.t \in {"nan", "inf"} THEN NaN
    ELSE IF a.q # R0 \/ a.y # R0 \/ a.x # R0 THEN Unrep
    ELSE TanPi(a.k)

\* principal value; an argument outside [-1, 1] gives nan
NArcsin(a) ==
    IF a.t = "unrep" THEN Unrep
    ELSE IF a.t \in {"nan", "inf"} THEN NaN
    ELSE IF ~IsRat(a) THEN Unrep
    ELSE IF RAbsGt1(a.q) THEN NaN
    ELSE CASE a.q = R0 -> Num(0, 1)
           [] a.q = <<1, 2>> -> Real(R0, <<1, 6>>, R0, R0)
           [] a.q = <<-1, 2>> -> Real(R0, <<-1, 6>>, R0, R0)
           [] a.q = R1 -> Real(R0, <<1, 2>>, R0, R0)
           [] a.q = <<-1, 1>> -> Real(R0, <<-1, 2>>, R0, R0)
           [] OTHER -> Real(R0, R0, a.q, R0)

\* degrees to radians: multiply by pi/180
NRadians(a) ==
    IF a.t # "r" THEN a
    ELSE IF a.k # R0 \/ a.x # R0 THEN Unrep
    ELSE Real(R0, RMul(a.q, <<1, 180>>), a.y, R0)

\* radians to degrees: multiply by 180/pi
NDegrees(a) ==
    IF a.t # "r" THEN a
    ELSE IF a.q # R0 \/ a.y # R0 THEN Unrep
    ELSE Real(RMul(a.k, <<180, 1>>), R0, R0, a.x)

np_pi == Real(R0, R1, R0, R0)

---------------------------------------------------------------------------
(* numpy arrays: a matrix is a sequence of rows; scalars broadcast *)

BroadcastError == [t |-> "err"]

Rows(m) == Len(m.v)
Cols(m) == Len(m.v[1])

\* np.array(x).reshape(-1, 1): a scalar or a list becomes a column vector
ColVec(x) ==
    IF x.t = "list" THEN Mat([i \in 1..Len(x.v) |-> <<x.v[i]>>])
    ELSE Mat(<<<<x>>>>)

Transpose(m) ==
    Mat([j \in 1..Cols(m) |-> [i \in 1..Rows(m) |-> m.v[i][j]]])

Shape(a) == IF a.t = "mat" THEN <<Rows(a), Cols(a)>> ELSE <<1, 1>>

At(a, i, j) ==
    IF a.t = "mat"
    THEN a.v[IF Rows(a) = 1 THEN 1 ELSE i][IF Cols(a) = 1 THEN 1 ELSE j]
    ELSE a

Max(a, b) == IF a >= b THEN a ELSE b

\* elementwise unary ufunc
Map1(F(_), a) ==
    IF a.t = "err" THEN a
    ELSE IF a.t = "mat"
    THEN Mat([i \in 1..Rows(a) |-> [j \in 1..Cols(a) |-> F(a.v[i][j])]])
    ELSE F(a)

\* elementwise binary ufunc with numpy broadcasting
Map2(F(_, _), a, b) ==
    IF a.t = "err" \/ b.t = "err" THEN BroadcastError
    ELSE IF a.t # "mat" /\ b.t # "mat" THEN F(a, b)
    ELSE LET sa == Shape(a)
             sb == Shape(b)
             ok == /\ (sa[1] = sb[1] \/ sa[1] = 1 \/ sb[1] = 1)
                   /\ (sa[2] = sb[2] \/ sa[2] = 1 \/ sb[2] = 1)
             r == Max(sa[1], sb[1])
             c == Max(sa[2], sb[2])
         IN  IF ~ok THEN BroadcastError
             ELSE Mat([i \in 1..r |-> [j \in 1..c |->
                          F(At(a, i, j), At(b, i, j))]])

RECURSIVE Dot(_, _, _, _, _)
Dot(a, b, i, j, k) ==
    IF k = 1 THEN NMul(a.v[i][1], b.v[1][j])
    ELSE NAdd(Dot(a, b, i, j, k - 1), NMul(a.v[i][k], b.v[k][j]))

\* np.matmul of two matrices
MatMul(a, b) ==
    IF a.t = "err" \/ b.t = "err" \/ Cols(a) # Rows(b) THEN BroadcastError
    ELSE Mat([i \in 1..Rows(a) |-> [j \in 1..Cols(b) |->
                 Dot(a, b, i, j, Cols(a))]])

---------------------------------------------------------------------------
(* Outcome of a call: the record after the call, and what the call gave *)

Return(s, v) == [self |-> s, out |-> [kind |-> "ok", val |-> v]]
Raise(s, kind, msg) == [self |-> s, out |-> [kind |-> kind, msg |-> msg]]

---------------------------------------------------------------------------
(* Foreoptics *)

Foreoptics(ds_i, ds_o, n, dm_a, a_in_max, na, b, g, s) ==
    [cls |-> "Foreoptics", ds_i |-> ds_i, ds_o |-> ds_o, n |-> n,
     dm_a |-> dm_a, a_in_max |-> a_in_max, na |-> na, b |-> b, g |-> g,
     s |-> s]

\* as get_aperture_diameter, but storing the result in self.dm_a
Foreoptics_get_aperture_diameter_caching(s) ==
    IF s.ds_i = None THEN Raise(s, "AssertionError", "ds_i is not set.")
    ELSE IF s.n # None
    THEN Return([s EXCEPT !.dm_a = NDivide(s.ds_i, s.n)],
                NDivide(s.ds_i, s.n))
    ELSE IF s.na # None
    THEN Return([s EXCEPT !.dm_a = NMul(Num(2, 1), NMul(s.ds_i, s.na))],
                NMul(Num(2, 1), NMul(s.ds_i, s.na)))
    ELSE Raise(s, "ValueError", "n or na must be set.")

\* as get_aperture_diameter, but with the factor 2 of the numerical-aperture
\* path left out
Foreoptics_get_aperture_diameter_no_factor(s) ==
    IF s.ds_i = None THEN Raise(s, "AssertionError", "ds_i is not set.")
    ELSE IF s.n # None THEN Return(s, NDivide(s.ds_i, s.n))
    ELSE IF s.na # None THEN Return(s, NMul(s.ds_i, s.na))
    ELSE Raise(s, "ValueError", "n or na must be set.")

\* as get_aperture_diameter, but trying the numerical aperture before the
\* f-number
Foreoptics_get_aperture_diameter_na_first(s) ==
    IF s.ds_i = None THEN Raise(s, "AssertionError", "ds_i is not set.")
    ELSE IF s.na # None
    THEN Return(s, NMul(Num(2, 1), NMul(s.ds_i, s.na)))
    ELSE IF s.n # None THEN Return(s, NDivide(s.ds_i, s.n))
    ELSE Raise(s, "ValueError", "n or na must be set.")

Foreoptics_get_aperture_diameter(s) ==
    IF s.ds_i = None THEN Raise(s, "AssertionError", "ds_i is not set.")
    ELSE IF s.n # None THEN Return(s, NDivide(s.ds_i, s.n))
    ELSE IF s.na # None
    THEN Return(s, NMul(Num(2, 1), NMul(s.ds_i, s.na)))
    ELSE Raise(s, "ValueError", "n or na must be set.")

Foreoptics_get_magnification(s) ==
    IF s.ds_i = None THEN Raise(s, "AssertionError", "ds_i is not set.")
    ELSE IF s.ds_o = None THEN Raise(s, "AssertionError", "ds_o is not set.")
    ELSE Return(s, NDivide(s.ds_i, s.ds_o))

Foreoptics_get_f_number(s) ==
    IF s.na # None
    THEN Return(s, NDivide(Num(1, 1), NMul(Num(2, 1), s.na)))
    ELSE IF s.ds_i # None /\ s.dm_a # None
    THEN Return(s, NDivide(s.ds_i, s.dm_a))
    ELSE Raise(s, "ValueError", "ds_i and dm_a or na must be set.")

Foreoptics_get_effective_focal_length(s) ==
    IF s.ds_i = None THEN Raise(s, "AssertionError", "ds_i is not set.")
    ELSE IF s.ds_o = None THEN Raise(s, "AssertionError", "ds_o is not set.")
    ELSE Return(s, NDivide(NAdd(s.ds_o, s.ds_i), NMul(s.ds_o, s.ds_i)))

\* np.radians runs before any check: on None it raises TypeError, and its
\* result is never None, so the f-number path and the ValueError are dead
Foreoptics_get_numerical_aperture(s) ==
    IF s.a_in_max = None
    THEN Raise(s, "TypeError", "ufunc 'radians' not supported for NoneType")
    ELSE LET a_in_max == NRadians(s.a_in_max)
         IN  IF a_in_max # None THEN Return(s, NSin(a_in_max))
             ELSE IF s.n # None
             THEN Return(s, NDivide(Num(1, 1), NMul(Num(2, 1), s.n)))
             ELSE Raise(s, "ValueError", "a_in_max or n must be set.")

Foreoptics_get_geometric_etendue(s) ==
    IF s.s = None THEN Raise(s, "AssertionError", "s is not set.")
    ELSE IF s.a_in_max = None
    THEN Raise(s, "AssertionError", "a_in_max is not set.")
    ELSE LET a_in_max == NRadians(s.a_in_max)
             sin_a == NSin(a_in_max)
         IN  Return(s, NMul(np_pi, NMul(s.s, NMul(sin_a, sin_a))))

Foreoptics_get_radiant_flux(s) ==
    IF s.b = None THEN Raise(s, "AssertionError", "b is not set.")
    ELSE IF s.g = None THEN Raise(s, "AssertionError", "g is not set.")
    ELSE Return(s, NMul(s.b, s.g))

---------------------------------------------------------------------------
(* physlib.snell_angle_2: Snell's law, theta_2 = asin(n_1 sin(theta_1)/n_2) *)

snell_angle_2(angle_1, n_1, n_2) ==
    Map1(NArcsin, Map2(NDivide, Map2(NMul, n_1, Map1(NSin, angle_1)), n_2))

---------------------------------------------------------------------------
(* VPHGrism *)

VPHGrism(d, t, a_in, a_out, R, l, l_g, a, m, n_1, n_2, n_3, v, dl, N) ==
    [cls |-> "VPHGrism", d |-> d, t |-> t, a_in |-> a_in, a_out |-> a_out,
     R |-> R, l |-> l, l_g |-> l_g, a |-> a, m |-> m, n_1 |-> n_1,
     n_2 |-> n_2, n_3 |-> n_3, v |-> v, dl |-> dl, N |-> N]

\* as the angle chain, but returning angle_out without np.degrees
AngleChain_no_degrees(s) ==
    LET a_in0 == ColVec(s.a_in)
        n_1 == ColVec(s.n_1)
        n_2 == ColVec(s.n_2)
        n_3 == ColVec(s.n_3)
        m == ColVec(s.m)
        v == ColVec(s.v)
        l == Map2(NMul, ColVec(s.l), Num(1, 10^9))
        a_in == Map1(NRadians, a_in0)
        a == NRadians(s.a)
        angle_1 == Map2(NAdd, a_in, a)
        angle_2 == snell_angle_2(angle_1, n_1, n_2)
        angle_3 == Map2(NSub, a, angle_2)
        angle_4 == snell_angle_2(angle_3, n_2, n_3)
        angle_6 == Map1(NArcsin,
                        Map2(NSub, Map1(NSin, angle_4),
                             Map2(NMul, m, MatMul(v, Transpose(l)))))
        angle_8 == snell_angle_2(angle_6, n_3, n_2)
        angle_9 == Map2(NSub, angle_8, a)
        angle_10 == snell_angle_2(angle_9, n_2, n_1)
    IN  Map2(NAdd, angle_10, a)

\* the ten-stage angle chain of get_angle_out, all fields set
AngleChain(s) ==
    LET a_in0 == ColVec(s.a_in)
        n_1 == ColVec(s.n_1)
        n_2 == ColVec(s.n_2)
        n_3 == ColVec(s.n_3)
        m == ColVec(s.m)
        v == ColVec(s.v)
        l == Map2(NMul, ColVec(s.l), Num(1, 10^9))
        a_in == Map1(NRadians, a_in0)
        a == NRadians(s.a)
        angle_1 == Map2(NAdd, a_in, a)
        angle_2 == snell_angle_2(angle_1, n_1, n_2)
        angle_3 == Map2(NSub, a, angle_2)
        angle_4 == snell_angle_2(angle_3, n_2, n_3)
        angle_5 == angle_4
        angle_6 == Map1(NArcsin,
                        Map2(NSub, Map1(NSin, angle_5),
                             Map2(NMul, m, MatMul(v, Transpose(l)))))
        angle_7 == angle_6
        angle_8 == snell_angle_2(angle_7, n_3, n_2)
        angle_9 == Map2(NSub, angle_8, a)
        angle_10 == snell_angle_2(angle_9, n_2, n_1)
        angle_out == Map2(NAdd, angle_10, a)
    IN  Map1(NDegrees, angle_out)

\* as get_angle_out, but raising (as math.asin does) when an arcsin argument
\* leaves [-1, 1]
VPHGrism_get_angle_out_domain_error(s) ==
    IF s.a_in = None THEN Raise(s, "AssertionError", "a_in is not set.")
    ELSE IF s.n_1 = None THEN Raise(s, "AssertionError", "n_1 is not set.")
    ELSE IF s.n_2 = None THEN Raise(s, "AssertionError", "n_2 is not set.")
    ELSE IF s.n_3 = None THEN Raise(s, "AssertionError", "n_3 is not set.")
    ELSE IF s.m = None THEN Raise(s, "AssertionError", "m is not set.")
    ELSE IF s.a = None THEN Raise(s, "AssertionError", "a is not set.")
    ELSE IF s.v = None THEN Raise(s, "AssertionError", "v is not set.")
    ELSE IF s.l = None THEN Raise(s, "AssertionError", "l is not set.")
    ELSE LET angle_out == AngleChain(s)
         IN  IF angle_out.t = "err"
             THEN Raise(s, "ValueError", "operands could not be broadcast together")
             ELSE IF \E i \in 1..Rows(angle_out) :
                        \E j \in 1..Cols(angle_out) : angle_out.v[i][j] = NaN
             THEN Raise(s, "ValueError", "math domain error")
             ELSE Return(s, angle_out)

VPHGrism_get_angle_out(s) ==
    IF s.a_in = None THEN Raise(s, "AssertionError", "a_in is not set.")
    ELSE IF s.n_1 = None THEN Raise(s, "AssertionError", "n_1 is not set.")
    ELSE IF s.n_2 = None THEN Raise(s, "AssertionError", "n_2 is not set.")
    ELSE IF s.n_3 = None THEN Raise(s, "AssertionError", "n_3 is not set.")
    ELSE IF s.m = None THEN Raise(s, "AssertionError", "m is not set.")
    ELSE IF s.a = None THEN Raise(s, "AssertionError", "a is not set.")
    ELSE IF s.v = None THEN Raise(s, "AssertionError", "v is not set.")
    ELSE IF s.l = None THEN Raise(s, "AssertionError", "l is not set.")
    ELSE LET angle_out == AngleChain(s)
         IN  IF angle_out.t = "err"
             THEN Raise(s, "ValueError", "operands could not be broadcast together")
             ELSE Return(s, angle_out)

VPHGrism_get_resolvance(s) ==
    IF s.l # None /\ s.dl # None
    THEN (IF IsZero(s.dl)
          THEN Raise(s, "ZeroDivisionError", "float division by zero")
          ELSE Return(s, NDivide(s.l, s.dl)))
    ELSE IF s.m # None /\ s.N # None THEN Return(s, NMul(s.m, s.N))
    ELSE Raise(s, "ValueError", "l and dl or m and N must be set.")

\* as get_resolution, but trying the order-and-fringes path before the
\* resolvance path
VPHGrism_get_resolution_fringes_first(s) ==
    IF s.l # None /\ s.m # None /\ s.N # None
    THEN (IF IsZero(NMul(s.m, s.N))
          THEN Raise(s, "ZeroDivisionError", "float division by zero")
          ELSE Return(s, NDivide(s.l, NMul(s.m, s.N))))
    ELSE IF s.l # None /\ s.R # None
    THEN (IF IsZero(s.R)
          THEN Raise(s, "ZeroDivisionError", "float division by zero")
          ELSE Return(s, NDivide(s.l, s.R)))
    ELSE Raise(s, "ValueError", "l and R or l and m and N must be set.")

VPHGrism_get_resolution(s) ==
    IF s.l # None /\ s.R # None
    THEN (IF IsZero(s.R)
          THEN Raise(s, "ZeroDivisionError", "float division by zero")
          ELSE Return(s, NDivide(s.l, s.R)))
    ELSE IF s.l # None /\ s.m # None /\ s.N # None
    THEN (IF IsZero(NMul(s.m, s.N))
          THEN Raise(s, "ZeroDivisionError", "float division by zero")
          ELSE Return(s, NDivide(s.l, NMul(s.m, s.N))))
    ELSE Raise(s, "ValueError", "l and R or l and m and N must be set.")

---------------------------------------------------------------------------
(* ThinLens *)

LUT(T) == [t |-> "LUT", path |-> T]

ThinLens(D, M, T, a_in, a_out, d_i, d_o, f, h_i, h_o) ==
    [cls |-> "ThinLens", D |-> D, M |-> M, T |-> LUT(T), a_in |-> a_in,
     a_out |-> a_out, d_i |-> d_i, d_o |-> d_o, f |-> f, h_i |-> h_i,
     h_o |-> h_o]

ThinLens_get_image_distance(s) ==
    IF s.f = None THEN Raise(s, "AssertionError", "f is not set.")
    ELSE Return(s, s.f)

ThinLens_get_source_distance(s) ==
    IF s.f = None THEN Raise(s, "AssertionError", "f is not set.")
    ELSE Return(s, s.f)

\* as get_image_height, but with the operands of the product exchanged
ThinLens_get_image_height_swapped(s) ==
    IF s.f = None THEN Raise(s, "AssertionError", "f is not set.")
    ELSE IF s.a_in = None THEN Raise(s, "AssertionError", "a_in is not set.")
    ELSE LET f == ColVec(s.f)
             a_in == Map1(NRadians, ColVec(s.a_in))
         IN  Return(s, MatMul(Map1(NTan, a_in), Transpose(f)))

ThinLens_get_image_height(s) ==
    IF s.f = None THEN Raise(s, "AssertionError", "f is not set.")
    ELSE IF s.a_in = None THEN Raise(s, "AssertionError", "a_in is not set.")
    ELSE LET f == ColVec(s.f)
             a_in == Map1(NRadians, ColVec(s.a_in))
         IN  Return(s, MatMul(f, Transpose(Map1(NTan, a_in))))

ThinLens_get_source_height(s) ==
    IF s.f = None THEN Raise(s, "AssertionError", "f is not set.")
    ELSE IF s.a_out = None
    THEN Raise(s, "AssertionError", "a_out is not set.")
    ELSE LET f == ColVec(s.f)
             a_out == Map1(NRadians, ColVec(s.a_out))
         IN  Return(s, MatMul(f, Transpose(Map1(NTan, a_out))))

\* as get_focal_length, but with the fourth path reading the image height
ThinLens_get_focal_length_image_height(s) ==
    IF s.d_i # None THEN Return(s, s.d_i)
    ELSE IF s.d_o # None THEN Return(s, s.d_o)
    ELSE IF s.h_i # None /\ s.a_in # None
    THEN Return(s, NDivide(s.h_i, NTan(NRadians(s.a_in))))
    ELSE IF s.h_i # None /\ s.a_out # None
    THEN Return(s, NDivide(s.h_i, NTan(NRadians(s.a_out))))
    ELSE Raise(s, "ValueError",
               "d_i or d_o or h_i and a_in or h_o and a_out must be set.")

ThinLens_get_focal_length(s) ==
    IF s.d_i # None THEN Return(s, s.d_i)
    ELSE IF s.d_o # None THEN Return(s, s.d_o)
    ELSE IF s.h_i # None /\ s.a_in # None
    THEN Return(s, NDivide(s.h_i, NTan(NRadians(s.a_in))))
    ELSE IF s.h_o # None /\ s.a_out # None
    THEN Return(s, NDivide(s.h_o, NTan(NRadians(s.a_out))))
    ELSE Raise(s, "ValueError",
               "d_i or d_o or h_i and a_in or h_o and a_out must be set.")

---------------------------------------------------------------------------
(* AchromDoublet *)

AchromDoublet(f_1, f_2, f_eq, V_1, V_2) ==
    [cls |-> "AchromDoublet", f_1 |-> f_1, f_2 |-> f_2, f_eq |-> f_eq,
     V_1 |-> V_1, V_2 |-> V_2]

\* 10 ** -3
Milli == Num(1, 1000)

AchromDoublet_focal_length_1(s) ==
    IF s.V_1 = None THEN Raise(s, "AssertionError", "V_1 is not set.")
    ELSE IF s.V_2 = None THEN Raise(s, "AssertionError", "V_2 is not set.")
    ELSE IF s.f_eq = None THEN Raise(s, "AssertionError", "f_eq is not set.")
    ELSE LET f_eq == NMul(s.f_eq, Milli)
         IN  IF IsZero(s.V_1)
             THEN Raise(s, "ZeroDivisionError", "float division by zero")
             ELSE Return(s, NDivide(NMul(f_eq, NSub(s.V_1, s.V_2)), s.V_1))

AchromDoublet_focal_length_2(s) ==
    IF s.V_1 = None THEN Raise(s, "AssertionError", "V_1 is not set.")
    ELSE IF s.V_2 = None THEN Raise(s, "AssertionError", "V_2 is not set.")
    ELSE IF s.f_eq = None THEN Raise(s, "AssertionError", "f_eq is not set.")
    ELSE LET f_eq == NMul(s.f_eq, Milli)
         IN  IF IsZero(s.V_2)
             THEN Raise(s, "ZeroDivisionError", "float division by zero")
             ELSE Return(s, NDivide(NMul(NNeg(f_eq), NSub(s.V_1, s.V_2)),
                                    s.V_2))

\* both unit conversions run before any check: None * 10 ** -3 raises
\* TypeError, so f_1 and f_2 must both be set and the f_2 path and the
\* ValueError are dead; V_1 and V_2 are used without being asserted
AchromDoublet_effective_focal_length(s) ==
    IF s.f_1 = None \/ s.f_2 = None
    THEN Raise(s, "TypeError",
               "unsupported operand type(s) for *: 'NoneType' and 'float'")
    ELSE LET f_1 == NMul(s.f_1, Milli)
             f_2 == NMul(s.f_2, Milli)
         IN  IF f_1 # None
             THEN (IF s.V_1 = None
                   THEN Raise(s, "TypeError",
                       "unsupported operand type(s) for *: 'float' and 'NoneType'")
                   ELSE IF s.V_2 = None
                   THEN Raise(s, "TypeError",
                       "unsupported operand type(s) for -: 'float' and 'NoneType'")
                   ELSE IF IsZero(NSub(s.V_1, s.V_2))
                   THEN Raise(s, "ZeroDivisionError", "float division by zero")
                   ELSE Return(s, NDivide(NMul(f_1, s.V_1),
                                          NSub(s.V_1, s.V_2))))
             ELSE IF f_2 # None
             THEN Return(s, NDivide(NMul(NNeg(f_2), s.V_2),
                                    NSub(s.V_1, s.V_2)))
             ELSE Raise(s, "ValueError", "f_1 or f_2 must be set.")

---------------------------------------------------------------------------
(* Constructions: every field is None or a value *)

Opt(S) == {None} \cup S

ForeopticsInstances ==
    {Foreoptics(ds_i, ds_o, n, dm_a, a_in_max, na, b, g, s) :
        ds_i \in Opt({Num(50, 1)}), ds_o \in Opt({Num(200, 1)}),
        n \in Opt({Num(2, 1)}), dm_a \in Opt({Num(25, 1)}),
        a_in_max \in Opt({Num(30, 1)}), na \in Opt({Num(1, 4)}),
        b \in Opt({Num(3, 1)}), g \in Opt({Num(5, 1)}),
        s \in Opt({Num(4, 1)})}

VPHGrismInstances ==
    {VPHGrism(d, t, a_in, a_out, R, l, l_g, a, m, n_1, n_2, n_3, v, dl, N) :
        d \in Opt({Num(1, 100)}), t \in Opt({Num(9, 10)}),
        a_in \in Opt({Num(30, 1)}), a_out \in Opt({Num(10, 1)}),
        R \in Opt({Num(1000, 1)}), l \in Opt({Num(500, 1)}),
        l_g \in Opt({Num(600, 1)}), a \in Opt({Num(0, 1)}),
        m \in Opt({Num(2, 1)}), n_1 \in Opt({Num(1, 1)}),
        n_2 \in Opt({Num(2, 1)}), n_3 \in Opt({Num(1, 1)}),
        v \in Opt({Num(500000, 1)}), dl \in Opt({Num(1, 2)}),
        N \in Opt({Num(500, 1)})}

ThinLensInstances ==
    {ThinLens(D, M, T, a_in, a_out, d_i, d_o, f, h_i, h_o) :
        D \in Opt({Num(25, 1)}), M \in Opt({Num(12, 1)}),
        T \in {None}, a_in \in Opt({Num(45, 1)}),
        a_out \in Opt({Num(135, 1)}), d_i \in Opt({Num(80, 1)}),
        d_o \in Opt({Num(120, 1)}), f \in Opt({Num(10, 1), Num(20, 1)}),
        h_i \in Opt({Num(7, 1)}), h_o \in Opt({Num(9, 1)})}

AchromDoubletInstances ==
    {AchromDoublet(f_1, f_2, f_eq, V_1, V_2) :
        f_1 \in Opt({Num(50, 1), Num(100, 1)}),
        f_2 \in Opt({Num(-100, 1)}),
        f_eq \in Opt({Num(100, 1), Num(-40, 1)}),
        V_1 \in Opt({Num(60, 1), Num(30, 1), Num(0, 1)}),
        V_2 \in Opt({Num(30, 1), Num(60, 1), Num(0, 1)})}

---------------------------------------------------------------------------
(* Calls.  last records the latest call and its outcome; first keeps the  *)
(* record as constructed.                                                  *)

Call(op, r) ==
    /\ self' = r.self
    /\ last' = [op |-> op, out |-> r.out]
    /\ UNCHANGED first

CallForeopticsApertureDiameter ==
    /\ self.cls = "Foreoptics"
    /\ Call("Foreoptics.get_aperture_diameter",
            Foreoptics_get_aperture_diameter(self))

CallForeopticsMagnification ==
    /\ self.cls = "Foreoptics"
    /\ Call("Foreoptics.get_magnification", Foreoptics_get_magnification(self))

CallForeopticsFNumber ==
    /\ self.cls = "Foreoptics"
    /\ Call("Foreoptics.get_f_number", Foreoptics_get_f_number(self))

CallForeopticsEffectiveFocalLength ==
    /\ self.cls = "Foreoptics"
    /\ Call("Foreoptics.get_effective_focal_length",
            Foreoptics_get_effective_focal_length(self))

CallForeopticsNumericalAperture ==
    /\ self.cls = "Foreoptics"
    /\ Call("Foreoptics.get_numerical_aperture",
            Foreoptics_get_numerical_aperture(self))

CallForeopticsGeometricEtendue ==
    /\ self.cls = "Foreoptics"
    /\ Call("Foreoptics.get_geometric_etendue",
            Foreoptics_get_geometric_etendue(self))

CallForeopticsRadiantFlux ==
    /\ self.cls = "Foreoptics"
    /\ Call("Foreoptics.get_radiant_flux", Foreoptics_get_radiant_flux(self))

CallGrismAngleOut ==
    /\ self.cls = "VPHGrism"
    /\ Call("VPHGrism.get_angle_out", VPHGrism_get_angle_out(self))

CallGrismResolvance ==
    /\ self.cls = "VPHGrism"
    /\ Call("VPHGrism.get_resolvance", VPHGrism_get_resolvance(self))

CallGrismResolution ==
    /\ self.cls = "VPHGrism"
    /\ Call("VPHGrism.get_resolution", VPHGrism_get_resolution(self))

CallLensImageDistance ==
    /\ self.cls = "ThinLens"
    /\ Call("ThinLens.get_image_distance", ThinLens_get_image_distance(self))

CallLensSourceDistance ==
    /\ self.cls = "ThinLens"
    /\ Call("ThinLens.get_source_distance", ThinLens_get_source_distance(self))

CallLensImageHeight ==
    /\ self.cls = "ThinLens"
    /\ Call("ThinLens.get_image_height", ThinLens_get_image_height(self))

CallLensSourceHeight ==
    /\ self.cls = "ThinLens"
    /\ Call("ThinLens.get_source_height", ThinLens_get_source_height(self))

CallLensFocalLength ==
    /\ self.cls = "ThinLens"
    /\ Call("ThinLens.get_focal_length", ThinLens_get_focal_length(self))

CallDoubletFocalLength1 ==
    /\ self.cls = "AchromDoublet"
    /\ Call("AchromDoublet.focal_length_1", AchromDoublet_focal_length_1(self))

CallDoubletFocalLength2 ==
    /\ self.cls = "AchromDoublet"
    /\ Call("AchromDoublet.focal_length_2", AchromDoublet_focal_length_2(self))

CallDoubletEffectiveFocalLength ==
    /\ self.cls = "AchromDoublet"
    /\ Call("AchromDoublet.effective_focal_length",
            AchromDoublet_effective_focal_length(self))

---------------------------------------------------------------------------
(* Spec: any component, constructed with any subset of its fields set,    *)
(* queried any number of times by any of its methods.                      *)

Init ==
    /\ self \in ForeopticsInstances \cup VPHGrismInstances
                \cup ThinLensInstances \cup AchromDoubletInstances
    /\ first = self
    /\ last = None

Next ==
    \/ CallForeopticsApertureDiameter
    \/ CallForeopticsMagnification
    \/ CallForeopticsFNumber
    \/ CallForeopticsEffectiveFocalLength
    \/ CallForeopticsNumericalAperture
    \/ CallForeopticsGeometricEtendue
    \/ CallForeopticsRadiantFlux
    \/ CallGrismAngleOut
    \/ CallGrismResolvance
    \/ CallGrismResolution
    \/ CallLensImageDistance
    \/ CallLensSourceDistance
    \/ CallLensImageHeight
    \/ CallLensSourceHeight
    \/ CallLensFocalLength
    \/ CallDoubletFocalLength1
    \/ CallDoubletFocalLength2
    \/ CallDoubletEffectiveFocalLength

Spec == Init /\ [][Next]_vars

\* every value an outcome holds is expressible
RECURSIVE HasUnrep(_)
HasUnrep(v) ==
    IF v.t = "mat"
    THEN \E i \in 1..Rows(v) : \E j \in 1..Cols(v) : v.v[i][j] = Unrep
    ELSE v = Unrep

Exact == last # None /\ last.out.kind = "ok" => ~HasUnrep(last.out.val)

---------------------------------------------------------------------------
(* The method an operation name stands for, applied to a record *)

Invoke(op, s) ==
    CASE op = "Foreoptics.get_aperture_diameter" ->
            Foreoptics_get_aperture_diameter(s)
      [] op = "Foreoptics.get_magnification" -> Foreoptics_get_magnification(s)
      [] op = "Foreoptics.get_f_number" -> Foreoptics_get_f_number(s)
      [] op = "Foreoptics.get_effective_focal_length" ->
            Foreoptics_get_effective_focal_length(s)
      [] op = "Foreoptics.get_numerical_aperture" ->
            Foreoptics_get_numerical_aperture(s)
      [] op = "Foreoptics.get_geometric_etendue" ->
            Foreoptics_get_geometric_etendue(s)
      [] op = "Foreoptics.get_radiant_flux" -> Foreoptics_get_radiant_flux(s)
      [] op = "VPHGrism.get_angle_out" -> VPHGrism_get_angle_out(s)
      [] op = "VPHGrism.get_resolvance" -> VPHGrism_get_resolvance(s)
      [] op = "VPHGrism.get_resolution" -> VPHGrism_get_resolution(s)
      [] op = "ThinLens.get_image_distance" -> ThinLens_get_image_distance(s)
      [] op = "ThinLens.get_source_distance" -> ThinLens_get_source_distance(s)
      [] op = "ThinLens.get_image_height" -> ThinLens_get_image_height(s)
      [] op = "ThinLens.get_source_height" -> ThinLens_get_source_height(s)
      [] op = "ThinLens.get_focal_length" -> ThinLens_get_focal_length(s)
      [] op = "AchromDoublet.focal_length_1" -> AchromDoublet_focal_length_1(s)
      [] op = "AchromDoublet.focal_length_2" -> AchromDoublet_focal_length_2(s)
      [] op = "AchromDoublet.effective_focal_length" ->
            AchromDoublet_effective_focal_length(s)

Called(op) == last # None /\ last.op = op
Returned(v) == last.out = [kind |-> "ok", val |-> v]
Failed(kind, msg) == last.out = [kind |-> kind, msg |-> msg]

---------------------------------------------------------------------------
(* C1: no derivation operation changes a field of the record it is called  *)
(* on: after any sequence of calls, returning or failing, the record       *)
(* equals the record as constructed, and the outcome of the latest call is *)
(* the outcome the same operation gives on the record as constructed.      *)
C1_NoMutation ==
    /\ self = first
    /\ last # None => last.out = Invoke(last.op, first).out

\* a derived aperture diameter was returned and dm_a is still unset
C1_Witness ==
    /\ Called("Foreoptics.get_aperture_diameter")
    /\ last.out.kind = "ok"
    /\ self.dm_a = None
    /\ self.n = None

---------------------------------------------------------------------------
(* C2 as stated: ThinLens.focal_length takes the first satisfied path of   *)
(* (1) image distance, (2) object distance, (3) image height + incidence   *)
(* angle, (4) image height + exit angle, returning d_i, d_o, h_i/tan(a_in),*)
(* h_i/tan(a_out), and fails iff none of the four is satisfied.            *)
C2_AsStated ==
    Called("ThinLens.get_focal_length") =>
        IF first.d_i # None THEN Returned(first.d_i)
        ELSE IF first.d_o # None THEN Returned(first.d_o)
        ELSE IF first.h_i # None /\ first.a_in # None
        THEN Returned(NDivide(first.h_i, NTan(NRadians(first.a_in))))
        ELSE IF first.h_i # None /\ first.a_out # None
        THEN Returned(NDivide(first.h_i, NTan(NRadians(first.a_out))))
        ELSE last.out.kind # "ok"

(* C2 amended: the fourth path is source height + exit angle: the call     *)
(* returns d_i if set, else d_o if set, else h_i/tan(a_in) if h_i and a_in *)
(* are set, else h_o/tan(a_out) if h_o and a_out are set, and fails (with  *)
(* ValueError) if and only if none of these four paths has all its inputs. *)
C2_FocalLengthPaths ==
    Called("ThinLens.get_focal_length") =>
        IF first.d_i # None THEN Returned(first.d_i)
        ELSE IF first.d_o # None THEN Returned(first.d_o)
        ELSE IF first.h_i # None /\ first.a_in # None
        THEN Returned(NDivide(first.h_i, NTan(NRadians(first.a_in))))
        ELSE IF first.h_o # None /\ first.a_out # None
        THEN Returned(NDivide(first.h_o, NTan(NRadians(first.a_out))))
        ELSE Failed("ValueError",
                    "d_i or d_o or h_i and a_in or h_o and a_out must be set.")

\* the fourth path was taken although the image height is set too
C2_Witness ==
    /\ Called("ThinLens.get_focal_length")
    /\ first.d_i = None /\ first.d_o = None /\ first.a_in = None
    /\ first.h_i # None /\ first.h_o # None /\ first.a_out # None
    /\ Returned(NDivide(first.h_o, NTan(NRadians(first.a_out))))

---------------------------------------------------------------------------
(* The fields an operation needs on every one of its paths *)
Required(op) ==
    CASE op = "Foreoptics.get_aperture_diameter" -> {"ds_i"}
      [] op = "Foreoptics.get_magnification" -> {"ds_i", "ds_o"}
      [] op = "Foreoptics.get_effective_focal_length" -> {"ds_i", "ds_o"}
      [] op = "Foreoptics.get_geometric_etendue" -> {"s", "a_in_max"}
      [] op = "Foreoptics.get_radiant_flux" -> {"b", "g"}
      [] op = "VPHGrism.get_angle_out" ->
            {"a_in", "n_1", "n_2", "n_3", "m", "a", "v", "l"}
      [] op = "VPHGrism.get_resolution" -> {"l"}
      [] op = "ThinLens.get_image_distance" -> {"f"}
      [] op = "ThinLens.get_source_distance" -> {"f"}
      [] op = "ThinLens.get_image_height" -> {"f", "a_in"}
      [] op = "ThinLens.get_source_height" -> {"f", "a_out"}
      [] op = "AchromDoublet.focal_length_1" -> {"V_1", "V_2", "f_eq"}
      [] op = "AchromDoublet.focal_length_2" -> {"V_1", "V_2", "f_eq"}
      [] op = "AchromDoublet.effective_focal_length" -> {"V_1", "V_2"}
      [] OTHER -> {}

(* C3 as stated: a derivation called with a field it needs on all of its   *)
(* paths unset fails with an AssertionError whose message names an unset   *)
(* required field, for every operation of the four components; the failure *)
(* is never of another kind.                                               *)
C3_AsStated ==
    last # None =>
        LET unset == {f \in Required(last.op) : first[f] = None}
        IN  unset # {} =>
                \E f \in unset :
                    Failed("AssertionError", f \o " is not set.")

---------------------------------------------------------------------------
(* C4 as stated: Foreoptics.numerical_aperture returns sin(a_max) when the *)
(* max incidence angle is set, else 1/(2n) when the f-number is set, and   *)
(* fails with ValueError 'a_in_max or n must be set.' when neither is set. *)
C4_AsStated ==
    Called("Foreoptics.get_numerical_aperture") =>
        IF first.a_in_max # None
        THEN Returned(NSin(NRadians(first.a_in_max)))
        ELSE IF first.n # None
        THEN Returned(NDivide(Num(1, 1), NMul(Num(2, 1), first.n)))
        ELSE Failed("ValueError", "a_in_max or n must be set.")

---------------------------------------------------------------------------
(* C5 as stated: AchromDoublet.effective_focal_length with both Abbe       *)
(* numbers set (and different) returns f_1 V_1/(V_1-V_2) whenever f_1 is   *)
(* set, whether or not f_2 is, returns -f_2 V_2/(V_1-V_2) when only f_2 is *)
(* set, and fails with ValueError 'f_1 or f_2 must be set.' when neither   *)
(* is; f_1 and f_2 are taken converted from mm to m.                       *)
C5_AsStated ==
    /\ Called("AchromDoublet.effective_focal_length")
    /\ first.V_1 # None /\ first.V_2 # None /\ first.V_1 # first.V_2
    => IF first.f_1 # None
       THEN Returned(NDivide(NMul(NMul(first.f_1, Milli), first.V_1),
                             NSub(first.V_1, first.V_2)))
       ELSE IF first.f_2 # None
       THEN Returned(NDivide(NMul(NNeg(NMul(first.f_2, Milli)), first.V_2),
                             NSub(first.V_1, first.V_2)))
       ELSE Failed("ValueError", "f_1 or f_2 must be set.")

---------------------------------------------------------------------------
(* SpecRoundTrip: a doublet with V_1, V_2, f_eq; its focal_length_1 (and   *)
(* focal_length_2) results are put in a second doublet with the same Abbe  *)
(* numbers, which is asked for its effective focal length.                 *)

InitRoundTrip ==
    /\ self \in {AchromDoublet(None, None, f_eq, V_1, V_2) :
                    f_eq \in {Num(100, 1), Num(-40, 1), Num(250, 1)},
                    V_1 \in {Num(60, 1), Num(30, 1), Num(40, 1)},
                    V_2 \in {Num(30, 1), Num(60, 1), Num(20, 1)}}
    /\ self.V_1 # self.V_2
    /\ first = self
    /\ last = None

\* AchromDoublet(f_1=first.focal_length_1(), V_1=..., V_2=...)
RebuildWithF1 ==
    /\ self = first
    /\ Called("AchromDoublet.focal_length_1")
    /\ last.out.kind = "ok"
    /\ self' = AchromDoublet(last.out.val, None, None, first.V_1, first.V_2)
    /\ UNCHANGED <<first, last>>

\* AchromDoublet(f_1=first.focal_length_1(), f_2=first.focal_length_2(), ...)
RebuildWithF1F2 ==
    /\ self = first
    /\ Called("AchromDoublet.focal_length_1")
    /\ last.out.kind = "ok"
    /\ self' = AchromDoublet(last.out.val,
                             AchromDoublet_focal_length_2(first).out.val,
                             None, first.V_1, first.V_2)
    /\ UNCHANGED <<first, last>>

NextRoundTrip ==
    \/ CallDoubletFocalLength1
    \/ RebuildWithF1
    \/ RebuildWithF1F2
    \/ CallDoubletEffectiveFocalLength

SpecRoundTrip == InitRoundTrip /\ [][NextRoundTrip]_vars

(* C6 as stated: for V_1 # V_2, both non-zero, and any f_eq, the doublet   *)
(* holding f_1 = focal_length_1() and the same V_1, V_2 returns the        *)
(* original f_eq from effective_focal_length().                            *)
C6_AsStated ==
    /\ Called("AchromDoublet.effective_focal_length")
    /\ self.f_1 = AchromDoublet_focal_length_1(first).out.val
    /\ self.V_1 = first.V_1 /\ self.V_2 = first.V_2
    => Returned(first.f_eq)

---------------------------------------------------------------------------
(* SpecCrossPath: a Foreoptics with image distance and f-number; a second  *)
(* one with the same image distance, no f-number and na = 1/(2n).          *)

InitCrossPath ==
    /\ self \in {Foreoptics(ds_i, None, n, None, None, None, None, None, None) :
                    ds_i \in {Num(0, 1), Num(50, 1), Num(-50, 1), Num(1, 2),
                              Num(75, 1), Num(7, 1)},
                    n \in {Num(2, 1), Num(3, 1), Num(-4, 1), Num(1, 2),
                           Num(14, 10)}}
    /\ first = self
    /\ last = None

\* Foreoptics(ds_i=first.ds_i, na=1/(2*first.n))
SwitchToNumericalAperture ==
    /\ self = first
    /\ self' = Foreoptics(first.ds_i, None, None, None, None,
                          NDivide(Num(1, 1), NMul(Num(2, 1), first.n)),
                          None, None, None)
    /\ UNCHANGED <<first, last>>

NextCrossPath ==
    \/ CallForeopticsApertureDiameter
    \/ SwitchToNumericalAperture

SpecCrossPath == InitCrossPath /\ [][NextCrossPath]_vars

---------------------------------------------------------------------------
(* Array-valued fields: a scalar, or a list of one to MaxLen elements *)

MaxLen == 2

Lists(S) == UNION {[1..k -> S] : k \in 1..MaxLen}
ArrayLike(S) == S \cup {List(x) : x \in Lists(S)}

Length(x) == IF x.t = "list" THEN Len(x.v) ELSE 1
Elem(x, i) == IF x.t = "list" THEN x.v[i] ELSE x

---------------------------------------------------------------------------
(* SpecHeights: a ThinLens with focal length and both angles set, each a   *)
(* scalar or an array.                                                     *)

InitHeights ==
    /\ self \in {ThinLens(None, None, None, a_in, a_out, None, None, f,
                          None, None) :
                    a_in \in ArrayLike({Num(0, 1), Num(45, 1)}),
                    a_out \in ArrayLike({Num(-45, 1), Num(180, 1)}),
                    f \in ArrayLike({Num(10, 1), Num(20, 1)})}
    /\ first = self
    /\ last = None

NextHeights ==
    \/ CallLensImageHeight
    \/ CallLensSourceHeight

SpecHeights == InitHeights /\ [][NextHeights]_vars

\* m is a p-by-q matrix with m[i][j] = f[i] * tan(angle[j] in radians)
IsOuterProduct(m, f, angle) ==
    /\ m.t = "mat"
    /\ Len(m.v) = Length(f)
    /\ \A i \in 1..Length(f) :
        /\ Len(m.v[i]) = Length(angle)
        /\ \A j \in 1..Length(angle) :
            m.v[i][j] = NMul(Elem(f, i), NTan(NRadians(Elem(angle, j))))

(* C9: image_height on a focal-length array of length p and an incidence   *)
(* angle array of length q returns the p-by-q matrix with [i,j] =          *)
(* f[i]*tan(a_in[j] in radians); source_height does the same with the exit *)
(* angle; a scalar counts as an array of length 1.                         *)
C9_OuterProduct ==
    /\ Called("ThinLens.get_image_height") =>
        last.out.kind = "ok" /\ IsOuterProduct(last.out.val, first.f, first.a_in)
    /\ Called("ThinLens.get_source_height") =>
        last.out.kind = "ok" /\ IsOuterProduct(last.out.val, first.f, first.a_out)

\* focal_length=[10, 20], incidence_angle=[0, 45]: element [1,1] (0-based)
\* is 20*tan(45 deg) = 20
C9_Witness ==
    /\ Called("ThinLens.get_image_height")
    /\ first.f = List(<<Num(10, 1), Num(20, 1)>>)
    /\ first.a_in = List(<<Num(0, 1), Num(45, 1)>>)
    /\ last.out.val = Mat(<<<<Num(0, 1), Num(10, 1)>>,
                            <<Num(0, 1), Num(20, 1)>>>>)

---------------------------------------------------------------------------
(* SpecIdentity: a grism with apex angle 0 and one refractive index for    *)
(* all three media; incidence angle and wavelength are scalars or arrays.  *)

InitIdentity ==
    /\ self \in {VPHGrism(None, None, a_in, None, None, l, None, Num(0, 1),
                          m, n, n, n, v, None, None) :
                    a_in \in ArrayLike({Num(-90, 1), Num(-30, 1), Num(0, 1),
                                        Num(30, 1), Num(150, 1)}),
                    l \in ArrayLike({Num(500, 1), Num(1000, 1)}),
                    m \in {Num(0, 1), Num(2, 1)},
                    n \in {Num(0, 1), Num(1, 1), Num(2, 1)},
                    v \in {Num(0, 1), Num(500000, 1)}}
    /\ first = self
    /\ last = None

NextIdentity == CallGrismAngleOut

SpecIdentity == InitIdentity /\ [][NextIdentity]_vars

IdentityCase ==
    /\ Called("VPHGrism.get_angle_out")
    /\ first.a = Num(0, 1) /\ first.v = Num(0, 1)
    /\ first.n_1 = first.n_2 /\ first.n_2 = first.n_3

\* -90 <= x <= 90 for a rational x
WithinRightAngle(x) == Abs(x.q[1]) <= 90 * x.q[2]

(* C7 as stated: with apex angle 0, fringe frequency 0 and n_1 = n_2 = n_3 *)
(* angle_out returns the incidence angle (in degrees) for every incidence  *)
(* angle, wavelength and diffraction order.                                *)
C7_AsStated ==
    IdentityCase =>
        /\ last.out.kind = "ok"
        /\ Rows(last.out.val) = Length(first.a_in)
        /\ \A i \in 1..Length(first.a_in) :
            /\ Len(last.out.val.v[i]) = Length(first.l)
            /\ \A j \in 1..Length(first.l) :
                last.out.val.v[i][j] = Elem(first.a_in, i)

(* C7 amended: with apex angle 0, fringe frequency 0 and n_1 = n_2 = n_3   *)
(* non-zero, angle_out returns a matrix with a row per incidence angle and *)
(* a column per wavelength whose row i holds the negated incidence angle   *)
(* -a_in[i] (in degrees) whenever -90 <= a_in[i] <= 90, for every          *)
(* wavelength and diffraction order: stage 3 (apex minus the refracted     *)
(* angle) reverses the sign and nothing reverses it back.                  *)
C7_SignReversal ==
    IdentityCase /\ ~IsZero(first.n_1) =>
        /\ last.out.kind = "ok"
        /\ Rows(last.out.val) = Length(first.a_in)
        /\ \A i \in 1..Length(first.a_in) :
            /\ Len(last.out.val.v[i]) = Length(first.l)
            /\ \A j \in 1..Length(first.l) :
                WithinRightAngle(Elem(first.a_in, i)) =>
                    last.out.val.v[i][j] = NNeg(Elem(first.a_in, i))

\* two incidence angles against two wavelengths, second order, index 2
C7_Witness ==
    /\ IdentityCase
    /\ first.a_in = List(<<Num(30, 1), Num(-90, 1)>>)
    /\ first.l = List(<<Num(500, 1), Num(1000, 1)>>)
    /\ first.m = Num(2, 1) /\ first.n_1 = Num(2, 1)
    /\ last.out.val = Mat(<<<<Num(-30, 1), Num(-30, 1)>>,
                            <<Num(90, 1), Num(90, 1)>>>>)

---------------------------------------------------------------------------
(* SpecDomain: a grism with all eight fields of get_angle_out set, with    *)
(* refraction and diffraction strong enough to leave the domain of arcsin. *)
(* Only the constructions whose chain the exact reals express are taken.   *)

AnyUnrep(m) ==
    \E i \in 1..Rows(m) : \E j \in 1..Cols(m) : m.v[i][j] = Unrep

DomainInstances ==
    {VPHGrism(None, None, a_in, None, None, l, None, a,
              m, n_1, n_2, n_3, Num(500000, 1), None, None) :
        a_in \in ArrayLike({Num(-30, 1), Num(30, 1), Num(90, 1)}),
        l \in ArrayLike({Num(1000, 1), Num(2000, 1)}),
        a \in {Num(0, 1), Num(60, 1)},
        m \in {Num(-1, 1), Num(1, 1)},
        n_1 \in {Num(1, 1), Num(2, 1)},
        n_2 \in {Num(1, 1), Num(2, 1)},
        n_3 \in {Num(1, 1), Num(2, 1)}}

InitDomain ==
    /\ self \in {g \in DomainInstances : ~AnyUnrep(AngleChain(g))}
    /\ first = self
    /\ last = None

NextDomain == CallGrismAngleOut

SpecDomain == InitDomain /\ [][NextDomain]_vars

\* the chain of one ray (one incidence angle, one wavelength), stage by
\* stage; Undefined from the first stage whose arcsin argument is not in
\* [-1, 1] onwards
Undefined == [t |-> "undefined"]

InRange(arg) == IsRat(arg) /\ ~RAbsGt1(arg.q)

RayRefract(theta, n_1, n_2) ==
    IF theta = Undefined THEN Undefined
    ELSE LET arg == NDivide(NMul(n_1, NSin(theta)), n_2)
         IN  IF InRange(arg) THEN NArcsin(arg) ELSE Undefined

RayDiffract(theta, m, v, l) ==
    IF theta = Undefined THEN Undefined
    ELSE LET arg == NSub(NSin(theta), NMul(m, NMul(v, l)))
         IN  IF InRange(arg) THEN NArcsin(arg) ELSE Undefined

RayShift(theta, a) ==
    IF theta = Undefined THEN Undefined ELSE NAdd(theta, a)

RayFlip(theta, a) ==
    IF theta = Undefined THEN Undefined ELSE NSub(a, theta)

Ray(s, a_in, l) ==
    LET a == NRadians(s.a)
        t1 == NAdd(NRadians(a_in), a)
        t2 == RayRefract(t1, s.n_1, s.n_2)
        t3 == RayFlip(t2, a)
        t4 == RayRefract(t3, s.n_2, s.n_3)
        t6 == RayDiffract(t4, s.m, s.v, NMul(l, Num(1, 10^9)))
        t8 == RayRefract(t6, s.n_3, s.n_2)
        t9 == RayShift(t8, NNeg(a))
        t10 == RayRefract(t9, s.n_2, s.n_1)
        out == RayShift(t10, a)
    IN  IF out = Undefined THEN Undefined ELSE NDegrees(out)

(* C8: with all eight fields set angle_out always returns; the element of  *)
(* a ray (incidence angle i, wavelength j) for which the arcsin argument   *)
(* of some refraction or diffraction stage exceeds 1 in magnitude is NaN,  *)
(* and every other element is the angle that ray's chain defines.          *)
C8_NaNPropagates ==
    Called("VPHGrism.get_angle_out") =>
        /\ last.out.kind = "ok"
        /\ Rows(last.out.val) = Length(first.a_in)
        /\ \A i \in 1..Length(first.a_in) :
            /\ Len(last.out.val.v[i]) = Length(first.l)
            /\ \A j \in 1..Length(first.l) :
                LET ray == Ray(first, Elem(first.a_in, i), Elem(first.l, j))
                IN  last.out.val.v[i][j] =
                        IF ray = Undefined THEN NaN ELSE ray

\* one call returned a matrix holding both a NaN and a defined angle, with
\* a non-zero apex angle
C8_Witness ==
    /\ Called("VPHGrism.get_angle_out")
    /\ last.out.kind = "ok"
    /\ first.a = Num(60, 1)
    /\ \E i \in 1..Rows(last.out.val) : \E j \in 1..Cols(last.out.val) :
        last.out.val.v[i][j] = NaN
    /\ \E i \in 1..Rows(last.out.val) : \E j \in 1..Cols(last.out.val) :
        last.out.val.v[i][j].t = "r"

---------------------------------------------------------------------------
(* SpecPriority: a Foreoptics with every set/unset combination of image    *)
(* distance, f-number and numerical aperture, the two paths giving         *)
(* different diameters whenever both are open.                             *)

InitPriority ==
    /\ self \in {Foreoptics(ds_i, None, n, dm_a, None, na, None, None, None) :
                    ds_i \in Opt({Num(0, 1), Num(50, 1), Num(-8, 1)}),
                    n \in Opt({Num(2, 1), Num(4, 1), Num(0, 1)}),
                    dm_a \in Opt({Num(25, 1)}),
                    na \in Opt({Num(1, 10), Num(1, 2), Num(0, 1)})}
    /\ first = self
    /\ last = None

NextPriority == CallForeopticsApertureDiameter

SpecPriority == InitPriority /\ [][NextPriority]_vars

(* C11: aperture_diameter decides in this order, for every set/unset       *)
(* combination of image distance, f-number and numerical aperture: image   *)
(* distance unset, it fails with the assertion naming ds_i whatever the    *)
(* other two are; else f-number set, it returns d_i/n even when the        *)
(* numerical aperture is set too; else numerical aperture set, it returns  *)
(* 2*d_i*NA; else it fails with the ValueError naming both paths.          *)
C11_PathOrder ==
    Called("Foreoptics.get_aperture_diameter") =>
        /\ first.ds_i = None =>
              Failed("AssertionError", "ds_i is not set.")
        /\ first.ds_i # None /\ first.n # None =>
              Returned(NDivide(first.ds_i, first.n))
        /\ first.ds_i # None /\ first.n = None /\ first.na # None =>
              Returned(NMul(Num(2, 1), NMul(first.ds_i, first.na)))
        /\ first.ds_i # None /\ first.n = None /\ first.na = None =>
              Failed("ValueError", "n or na must be set.")

\* both paths open with different diameters (50/4 against 2*50/10): the
\* f-number path has answered
C11_Witness ==
    /\ Called("Foreoptics.get_aperture_diameter")
    /\ first.ds_i = Num(50, 1) /\ first.n = Num(4, 1)
    /\ first.na = Num(1, 10)
    /\ Returned(Num(25, 2))

---------------------------------------------------------------------------
(* SpecInverse: a grism holding a wavelength and a spectral resolution, or *)
(* a diffraction order and a fringe count; its resolvance is taken, and a  *)
(* second grism is built from the result to take the resolution.           *)

Grism(R, l, m, dl, N) ==
    VPHGrism(None, None, None, None, R, l, None, None, m, None, None, None,
             None, dl, N)

Wavelengths == {Num(0, 1), Num(500, 1), Num(-500, 1), Num(1, 2)}

InitInverse ==
    /\ self \in {Grism(None, l, None, dl, None) :
                    l \in Wavelengths,
                    dl \in {Num(0, 1), Num(1, 2), Num(3, 1), Num(-2, 1)}}
               \cup
               {Grism(None, None, m, None, N) :
                    m \in {Num(0, 1), Num(2, 1), Num(-1, 1)},
                    N \in {Num(0, 1), Num(500, 1), Num(3, 1)}}
    /\ first = self
    /\ last = None

\* VPHGrism(l=first.l, R=first.get_resolvance()), with or without an order
\* and a fringe count
HoldResolvance ==
    /\ self = first /\ first.dl # None
    /\ Called("VPHGrism.get_resolvance") /\ last.out.kind = "ok"
    /\ \E m \in Opt({Num(3, 1)}), N \in Opt({Num(7, 1)}) :
          self' = Grism(last.out.val, first.l, m, None, N)
    /\ UNCHANGED <<first, last>>

\* VPHGrism(l=l, m=first.m, N=first.N)
HoldOrderAndFringes ==
    /\ self = first /\ first.dl = None
    /\ Called("VPHGrism.get_resolvance") /\ last.out.kind = "ok"
    /\ \E l \in Wavelengths : self' = Grism(None, l, first.m, None, first.N)
    /\ UNCHANGED <<first, last>>

NextInverse ==
    \/ CallGrismResolvance
    \/ HoldResolvance
    \/ HoldOrderAndFringes
    \/ CallGrismResolution

SpecInverse == InitInverse /\ [][NextInverse]_vars

\* the resolution of the second grism has been taken
ResolutionTaken == Called("VPHGrism.get_resolution") /\ self # first

\* the second grism holds the wavelength and the resolvance of (l, dl)
OnResolvancePath ==
    ResolutionTaken /\ first.dl # None /\ ~IsZero(first.dl)

\* the second grism holds a wavelength, the order and the fringe count
OnFringesPath ==
    ResolutionTaken /\ first.dl = None /\ ~IsZero(NMul(first.m, first.N))

\* resolvance() gives 1000 for (l=500, dl=0.5) and for (m=2, N=500)
SameResolvance ==
    Called("VPHGrism.get_resolvance") /\ self = first
        /\ first \in {Grism(None, Num(500, 1), None, Num(1, 2), None),
                      Grism(None, None, Num(2, 1), None, Num(500, 1))}
    => Returned(Num(1000, 1))

(* C12 as stated: for any wavelength l and non-zero dl, a grism holding l  *)
(* and R = resolvance() of (l, dl) has resolution() = dl; for any l, m, N  *)
(* with m*N non-zero and R unset, resolution() = l / resolvance() of       *)
(* (m, N); resolvance() is the same for (l=500, dl=0.5) and (m=2, N=500).  *)
C12_AsStated ==
    /\ OnResolvancePath => Returned(first.dl)
    /\ OnFringesPath =>
          Returned(NDivide(self.l, VPHGrism_get_resolvance(first).out.val))
    /\ SameResolvance

(* C12: for any non-zero wavelength l and non-zero dl, a grism holding l   *)
(* and R = resolvance() of (l, dl) has resolution() = dl, whether or not   *)
(* it also holds an order and a fringe count; with l = 0 the resolvance is *)
(* 0 and resolution() fails with ZeroDivisionError.  For any l, m, N with  *)
(* m*N non-zero and R unset, resolution() = l / resolvance() of (m, N).    *)
(* resolvance() gives 1000 both for (l=500, dl=0.5) and for (m=2, N=500).  *)
C12_Inverse ==
    /\ OnResolvancePath =>
          IF IsZero(first.l)
          THEN self.R = Num(0, 1)
               /\ last.out.kind = "ZeroDivisionError"
          ELSE Returned(first.dl)
    /\ OnFringesPath =>
          Returned(NDivide(self.l, VPHGrism_get_resolvance(first).out.val))
    /\ SameResolvance

\* the resolvance path has given back dl = 1/2 from l = 500 and R = 1000 on
\* a grism that also holds an order and a fringe count
C12_Witness ==
    /\ OnResolvancePath
    /\ first.l = Num(500, 1) /\ first.dl = Num(1, 2)
    /\ self.R = Num(1000, 1) /\ self.m # None /\ self.N # None
    /\ Returned(Num(1, 2))

====
